---- MODULE Spec2Model ----
(***************************************************************************)
(* Framed-line stream reader of the httpgo experiments.                    *)
(*                                                                         *)
(* Three variants of getLinesChannel exist in the repository:              *)
(*   "file"   experiments/go/httpgo/main.go            delimiter LF        *)
(*   "single" experiments/go/httpgo/cmd/tcplistener    delimiter LF,       *)
(*            sends the sentinel "EOF" before closing                      *)
(*   "multi"  the multi-connection listener            delimiter CRLF,     *)
(*            flushes the accumulator, never closes the channel            *)
(* A byte is a number (its ASCII code); a Go string is a sequence of bytes.*)
(***************************************************************************)
EXTENDS Integers, Sequences, FiniteSets, TLC

\* ------------------------------------------------------------------ bytes
NUL == 0
LF == 10
CR == 13

\* data byte 'x' that the modelled sources send besides CR and LF
DataBytes == {120}

\* the text "EOF" that the single-connection variant sends as a sentinel
EOFText == <<69, 79, 70>>

\* make([]byte, 8)
BufSize == 8

\* longest source content that is enumerated exhaustively
MaxLen == 4

\* longest source content on which getLinesChannel is called twice
MaxLenTwoRuns == 3

Variants == {"file", "single", "multi"}

Alphabet == DataBytes \cup {CR, LF}

\* all byte sequences of length 0..n over the set S
SeqsUpTo(S, n) == UNION {[1..k -> S] : k \in 0..n}

\* sources long enough to fill the 8-byte buffer in one Read, a source
\* whose line is the text "EOF", a source whose CRLF starts at the last byte
\* of a full buffer, a source with a CR and an LF around a CRLF, and a
\* source whose first line is the text "EOF" and is followed by a line
LongInputs ==
    { <<120, 120, 120, 120, 120, 120, 120, 10>>,
      <<120, 120, 120, 13, 10, 120, 120, 120>>,
      <<69, 79, 70, 10>>,
      <<120, 120, 120, 120, 120, 120, 120, 13, 10>>,
      <<13, 10, 13, 13, 10, 10>>,
      <<69, 79, 70, 10, 120, 10>> }

Inputs == SeqsUpTo(Alphabet, MaxLen) \cup LongInputs

\* how a source ends: io.EOF, or an error that is not io.EOF
Finals == {"EOF", "ERR"}

Min(x, y) == IF x <= y THEN x ELSE y

\* --------------------------------------------------------- package strings
\* strings.Contains(s, sep)
Contains(s, sep) ==
    \E i \in 1..(Len(s) - Len(sep) + 1) : SubSeq(s, i, i + Len(sep) - 1) = sep

\* strings.Index(s, sep): position of the first occurrence (1-based), 0 if none
Index(s, sep) ==
    IF Contains(s, sep)
    THEN CHOOSE i \in 1..(Len(s) - Len(sep) + 1) :
            /\ SubSeq(s, i, i + Len(sep) - 1) = sep
            /\ \A j \in 1..(i - 1) : SubSeq(s, j, j + Len(sep) - 1) # sep
    ELSE 0

\* strings.Split(s, sep) for a non-empty sep: the pieces between the
\* non-overlapping occurrences of sep, taken left to right
RECURSIVE Split(_, _)
Split(s, sep) ==
    IF ~Contains(s, sep)
    THEN <<s>>
    ELSE LET i == Index(s, sep)
         IN  <<SubSeq(s, 1, i - 1)>> \o Split(SubSeq(s, i + Len(sep), Len(s)), sep)

\* strings.Join(elems, "")
RECURSIVE Join(_)
Join(elems) ==
    IF elems = <<>> THEN <<>> ELSE Head(elems) \o Join(Tail(elems))

\* ------------------------------------------------------------------- state
VARIABLES
    variant,    \* which of the three programs runs
    f,          \* the io.ReadCloser: its bytes, how many were read, how it ends
    a,          \* the 8-byte read buffer
    line,       \* the accumulator
    str,        \* result of strings.Split while the send of the line is pending
    pc,         \* position of the reader goroutine
    closed,     \* strChan has been closed
    received,   \* values the range loop of main has received, in order
    printed,    \* what the program has printed or logged, in order
    mainpc,     \* position of the consumer: "range" or "done"
    reads,      \* history: the result (n, err) of every Read so far
    run,        \* 1 for the first call of getLinesChannel, 2 for a second call
    prev,       \* what the consumer observed of the first call
    conns,      \* listener programs: the connections Accept has returned, in order
    accpc,      \* listener programs: position of the accept loop of main
    panicked,   \* listener programs: a goroutine has panicked, the process is gone
    web,        \* go-starter: the request GetUser is serving and what it has written
    timer       \* timer experiment: position of main, the timer and its channel, the output

\* the state of one reader and its consumer
readerVars == <<variant, f, a, line, str, pc, closed, received, printed, mainpc,
                reads, run, prev>>

\* the state of the accept loop and of the connections it has accepted
acceptorVars == <<conns, accpc, panicked>>

\* the state of the user service of go-starter
webVars == <<web>>

\* the state of the timer experiment
timerVars == <<timer>>

vars == <<variant, f, a, line, str, pc, closed, received, printed, mainpc,
          reads, run, prev, conns, accpc, panicked, web, timer>>

\* no error: a nil error value
NoErr == <<>>

\* the user service between two requests: nothing parsed, queried or written
WebIdle ==
    [pc |-> "idle", idStr |-> "", id |-> "", q |-> [row |-> "", err |-> NoErr],
     user |-> "", err |-> NoErr, w |-> <<>>, calls |-> 0, n |-> 0]

\* the timer experiment when main has created the timer and enters the loop
TimerStart == [pc |-> "select", fired |-> FALSE, c |-> 0, out |-> <<>>]

\* the delimiter the variant looks for
Delim(v) == IF v = "multi" THEN <<CR, LF>> ELSE <<LF>>

NoPrev == [recv |-> <<>>, ended |-> FALSE, clean |-> FALSE, failed |-> FALSE]

\* what main has printed when it enters its range loop: the
\* single-connection variant announces the connection first
Accepted(v, out) ==
    IF v = "single" THEN Append(out, <<"connection accepted!">>) ELSE out

\* the state right after getLinesChannel(f) has started its goroutine and
\* main has entered its range loop, for a source with content from inputs
InitWith(inputs) ==
    /\ variant \in Variants
    /\ f \in [data : inputs, pos : {0}, final : Finals]
    /\ a = [i \in 1..BufSize |-> NUL]
    /\ line = <<>>
    /\ str = <<>>
    /\ pc = "Read"
    /\ closed = FALSE
    /\ received = <<>>
    /\ printed = Accepted(variant, <<>>)
    /\ mainpc = "range"
    /\ reads = <<>>
    /\ run = 1
    /\ prev = NoPrev
    /\ conns = <<>>
    /\ accpc = "Accept"
    /\ panicked = FALSE
    /\ web = WebIdle
    /\ timer = TimerStart

Init == InitWith(Inputs)

\* ------------------------------------------------------------ the source
\* The results f.Read(a) may return: n > 0 bytes and no error; the last
\* bytes together with the final error (io.Reader allows it); or 0 bytes and
\* the final error once everything was read.
ReadResults(src) ==
    LET rem == Len(src.data) - src.pos
    IN  IF rem = 0
        THEN {[n |-> 0, err |-> src.final]}
        ELSE {[n |-> k, err |-> "nil"] : k \in 1..Min(BufSize, rem)}
             \cup (IF rem <= BufSize THEN {[n |-> rem, err |-> src.final]} ELSE {})

\* Read copies n bytes to the front of the buffer and leaves the rest of it
CopyInto(buf, src, n) ==
    [i \in 1..BufSize |-> IF i <= n THEN src.data[src.pos + i] ELSE buf[i]]

\* ----------------------------------------------------- reader goroutine
\* stringedA := string(a) and the delimiter test, split and accumulation
\* that follows it; the goroutine then blocks in the send (pc "SendLine")
\* or goes back to Read
Scan(buf, sep) ==
    LET stringedA == buf
    IN  IF Contains(stringedA, sep)
        THEN /\ str' = Split(stringedA, sep)
             /\ line' = line \o Join(SubSeq(str', 1, 1))
             /\ pc' = "SendLine"
        ELSE /\ str' = <<>>
             /\ line' = line \o stringedA
             /\ pc' = "Read"

\* file variant: one pass of the loop from f.Read to the next blocking point
ReadFile ==
    /\ variant = "file"
    /\ pc = "Read"
    /\ \E r \in ReadResults(f) :
        /\ a' = CopyInto(a, f, r.n)
        /\ f' = [f EXCEPT !.pos = @ + r.n]
        /\ reads' = Append(reads, r)
        /\ printed' = IF r.err # "nil" THEN Append(printed, <<"log", r.err>>) ELSE printed
        /\ IF r.n = 0
           THEN /\ closed' = TRUE
                /\ pc' = "Return"
                /\ UNCHANGED <<line, str>>
           ELSE /\ Scan(a', <<LF>>)
                /\ UNCHANGED closed
    /\ UNCHANGED <<variant, received, mainpc, run, prev>>
    /\ UNCHANGED <<acceptorVars, webVars, timerVars>>

\* single-connection variant: as the file variant, but a zero-byte Read
\* leads to the send of "EOF" (pc "SendEOF") before the close
ReadSingle ==
    /\ variant = "single"
    /\ pc = "Read"
    /\ \E r \in ReadResults(f) :
        /\ a' = CopyInto(a, f, r.n)
        /\ f' = [f EXCEPT !.pos = @ + r.n]
        /\ reads' = Append(reads, r)
        /\ printed' = IF r.err # "nil" THEN Append(printed, <<"log", r.err>>) ELSE printed
        /\ IF r.n = 0
           THEN /\ pc' = "SendEOF"
                /\ UNCHANGED <<line, str>>
           ELSE Scan(a', <<LF>>)
    /\ UNCHANGED <<variant, closed, received, mainpc, run, prev>>
    /\ UNCHANGED <<acceptorVars, webVars, timerVars>>

\* multi-connection variant: a zero-byte Read or any error ends the loop,
\* after a send of the accumulator when it is not empty (pc "SendFlush");
\* the channel is not closed
ReadMulti ==
    /\ variant = "multi"
    /\ pc = "Read"
    /\ \E r \in ReadResults(f) :
        /\ a' = CopyInto(a, f, r.n)
        /\ f' = [f EXCEPT !.pos = @ + r.n]
        /\ reads' = Append(reads, r)
        /\ IF r.n = 0 \/ r.err # "nil"
           THEN /\ pc' = IF line # <<>> THEN "SendFlush" ELSE "Return"
                /\ UNCHANGED <<line, str>>
           ELSE Scan(a', <<CR, LF>>)
    /\ UNCHANGED <<variant, closed, received, printed, mainpc, run, prev>>
    /\ UNCHANGED <<acceptorVars, webVars, timerVars>>

\* a consumer that is told which value is the end marker of the reader
ConsumeEndMarker(s) ==
    /\ received' = Append(received, s)
    /\ printed' =
         IF variant = "file" THEN Append(printed, <<"read:", s>>)
         ELSE IF variant = "single" /\ pc = "SendEOF"
              THEN printed \o << <<"connection closed!">>, <<s>> >>
              ELSE Append(printed, <<s>>)

\* body of the range loop of main for one received value s
Consume(s) ==
    /\ received' = Append(received, s)
    /\ printed' =
         IF variant = "file" THEN Append(printed, <<"read:", s>>)
         ELSE IF variant = "single" /\ s = EOFText
              THEN printed \o << <<"connection closed!">>, <<s>> >>
              ELSE Append(printed, <<s>>)

\* a reader whose send does not wait for the consumer
SendLineNoWait ==
    /\ pc = "SendLine"
    /\ line' = <<>> \o Join(Tail(str))
    /\ str' = <<>>
    /\ pc' = "Read"
    /\ UNCHANGED <<variant, f, a, closed, received, printed, mainpc, reads, run,
                   prev>>
    /\ UNCHANGED <<acceptorVars, webVars, timerVars>>

\* strChan <- line after a delimiter was found: the unbuffered send completes
\* when main receives; then line = "" + strings.Join(str[1:], "") and continue
SendLine ==
    /\ pc = "SendLine"
    /\ mainpc = "range"
    /\ Consume(line)
    /\ line' = <<>> \o Join(Tail(str))
    /\ str' = <<>>
    /\ pc' = "Read"
    /\ UNCHANGED <<variant, f, a, closed, mainpc, reads, run, prev>>
    /\ UNCHANGED <<acceptorVars, webVars, timerVars>>

\* multi-connection variant: strChan <- line at the end of the source; return
SendFlush ==
    /\ pc = "SendFlush"
    /\ mainpc = "range"
    /\ Consume(line)
    /\ pc' = "Return"
    /\ UNCHANGED <<variant, f, a, line, str, closed, mainpc, reads, run, prev>>
    /\ UNCHANGED <<acceptorVars, webVars, timerVars>>

\* a reader that closes the channel before it sends "EOF"
SendEOFAfterClose ==
    /\ pc = "SendEOF"
    /\ ~closed
    /\ closed' = TRUE
    /\ UNCHANGED <<variant, f, a, line, str, pc, received, printed, mainpc,
                   reads, run, prev>>
    /\ UNCHANGED <<acceptorVars, webVars, timerVars>>

\* single-connection variant: strChan <- "EOF"; close(strChan); return
SendEOF ==
    /\ pc = "SendEOF"
    /\ mainpc = "range"
    /\ Consume(EOFText)
    /\ closed' = TRUE
    /\ pc' = "Return"
    /\ UNCHANGED <<variant, f, a, line, str, mainpc, reads, run, prev>>
    /\ UNCHANGED <<acceptorVars, webVars, timerVars>>

\* the range loop of main ends when the channel is closed and drained
RangeExit ==
    /\ mainpc = "range"
    /\ closed
    /\ pc = "Return"
    /\ mainpc' = "done"
    /\ UNCHANGED <<variant, f, a, line, str, pc, closed, received, printed,
                   reads, run, prev>>
    /\ UNCHANGED <<acceptorVars, webVars, timerVars>>

Next ==
    \/ ReadFile
    \/ ReadSingle
    \/ ReadMulti
    \/ SendLine
    \/ SendFlush
    \/ SendEOF
    \/ RangeExit

Spec == Init /\ [][Next]_vars

\* ------------------------------------------------- a second call on the
\* same bytes.  The reader goroutine of the first call has returned and main
\* has received everything it will ever receive from it; getLinesChannel is
\* called again on a source with the same content (a fresh channel, buffer
\* and accumulator), which may be read in other chunk sizes and may end in
\* another way.
Quiescent == pc = "Return" /\ (closed => mainpc = "done")

\* every Read that returned bytes returned them without an error, and the
\* source ends with io.EOF
CleanEOF ==
    /\ f.final = "EOF"
    /\ \A i \in 1..Len(reads) : reads[i].n > 0 => reads[i].err = "nil"

\* some Read returned an error that is not io.EOF
Failed == \E i \in 1..Len(reads) : reads[i].err = "ERR"

Observed == [recv |-> received, ended |-> (mainpc = "done"),
             clean |-> CleanEOF, failed |-> Failed]

getLinesChannel ==
    /\ run = 1
    /\ Quiescent
    /\ prev' = Observed
    /\ run' = 2
    /\ \E fin \in Finals : f' = [f EXCEPT !.pos = 0, !.final = fin]
    /\ a' = [i \in 1..BufSize |-> NUL]
    /\ line' = <<>>
    /\ str' = <<>>
    /\ pc' = "Read"
    /\ closed' = FALSE
    /\ received' = <<>>
    /\ mainpc' = "range"
    /\ reads' = <<>>
    /\ printed' = Accepted(variant, printed)
    /\ UNCHANGED variant
    /\ UNCHANGED <<acceptorVars, webVars, timerVars>>

NextTwoRuns ==
    \/ ReadFile
    \/ ReadSingle
    \/ ReadMulti
    \/ SendLine
    \/ SendFlush
    \/ SendEOF
    \/ RangeExit
    \/ getLinesChannel

InitTwoRuns == InitWith(SeqsUpTo(Alphabet, MaxLenTwoRuns))

SpecTwoRuns == InitTwoRuns /\ [][NextTwoRuns]_vars

\* ------------------------------------------------- the listener programs
\* main of the single-connection listener (cmd/tcplistener/main.go) and of
\* the multi-connection listener: an accept loop, and for every connection a
\* reader (getLinesChannel) and a range loop that consumes it.  The
\* multi-connection listener runs the range loop in a goroutine of its own,
\* the single-connection listener in main itself.

\* most connections Accept returns in one run
MaxConns == 3

ListenerVariants == {"single", "multi"}

\* what the clients of the modelled connections send
ConnInputs == { <<>>, <<13, 10>> }

\* a handler that closes its connection as soon as it starts
NewConnClosedAtStart(src, v, late) ==
    [nil |-> FALSE, f |-> src, a |-> [i \in 1..BufSize |-> NUL],
     line |-> <<>>, str |-> <<>>, pc |-> "Read", closed |-> FALSE,
     reads |-> <<>>, received |-> <<>>,
     out |-> Accepted(v, <<>>), hpc |-> "range", closes |-> 1, late |-> late]

\* the reader and handler state of a connection Accept has just returned;
\* late records that an earlier connection had already failed by then
NewConn(src, v, late) ==
    [nil |-> FALSE, f |-> src, a |-> [i \in 1..BufSize |-> NUL],
     line |-> <<>>, str |-> <<>>, pc |-> "Read", closed |-> FALSE,
     reads |-> <<>>, received |-> <<>>,
     out |-> Accepted(v, <<>>), hpc |-> "range", closes |-> 0, late |-> late]

\* what a Read of the connection src can return: how the connection ends
\* (the client closes it, or it breaks) is settled by the first Read that
\* returns an error
SourceResults(src) ==
    IF src.final \in Finals
    THEN ReadResults(src)
    ELSE UNION {ReadResults([src EXCEPT !.final = fin]) : fin \in Finals}

\* conn as left by a failed Accept: a nil net.Conn.  The multi-connection
\* handler is about to run its defer, the single-connection reader its Read.
NilConn(v, late) ==
    [NewConn([data |-> <<>>, pos |-> 0, final |-> "ERR"], v, late)
        EXCEPT !.nil = TRUE, !.hpc = IF v = "multi" THEN "defer" ELSE "range"]

\* some Read of the connection returned an error that is not io.EOF
ConnFailed(r) == \E i \in 1..Len(r.reads) : r.reads[i].err = "ERR"

\* a listener that starts a goroutine for every handler
AfterAcceptConcurrent(v) == "Accept"

\* a listener that runs the handler in main instead of a goroutine
AfterAcceptInline(v) == "Range"

\* where main continues after a successful or failed Accept: the
\* multi-connection listener starts a goroutine and loops, the
\* single-connection listener enters the range loop itself
AfterAccept(v) == IF v = "multi" THEN "Accept" ELSE "Range"

\* readers that share one accumulator
PutSharedAccumulator(cs, c, r) ==
    [d \in DOMAIN cs |-> IF d = c THEN r ELSE [cs[d] EXCEPT !.line = r.line]]

\* readers that share one read buffer
PutSharedBuffer(cs, c, r) ==
    [d \in DOMAIN cs |-> IF d = c THEN r ELSE [cs[d] EXCEPT !.a = r.a]]

\* the connection record r is stored as connection c; every call of
\* getLinesChannel has its own buffer, accumulator and channel
Put(cs, c, r) == [cs EXCEPT ![c] = r]

\* conn, err := listener.Accept() returns a connection
AcceptConn ==
    /\ ~panicked
    /\ accpc = "Accept"
    /\ Len(conns) < MaxConns
    /\ \E data \in ConnInputs :
         conns' = Append(conns,
                    NewConn([data |-> data, pos |-> 0, final |-> "open"], variant,
                            \E d \in 1..Len(conns) : ConnFailed(conns[d])))
    /\ accpc' = AfterAccept(variant)
    /\ UNCHANGED <<panicked, readerVars, webVars, timerVars>>

\* conn, err := listener.Accept() returns an error: it is logged, and the
\* code goes on with the nil conn as after a successful Accept
AcceptError ==
    /\ ~panicked
    /\ accpc = "Accept"
    /\ Len(conns) < MaxConns
    /\ printed' = Append(printed, <<"log", "accept error">>)
    /\ conns' = Append(conns,
                  NilConn(variant, \E d \in 1..Len(conns) : ConnFailed(conns[d])))
    /\ accpc' = AfterAccept(variant)
    /\ UNCHANGED <<panicked, variant, f, a, line, str, pc, closed, received,
                   mainpc, reads, run, prev, webVars, timerVars>>

\* multi-connection handler: defer conn.Close() with a nil conn panics
DeferNil(c) ==
    /\ ~panicked
    /\ variant = "multi"
    /\ conns[c].nil
    /\ conns[c].hpc = "defer"
    /\ panicked' = TRUE
    /\ UNCHANGED <<conns, accpc, readerVars, webVars, timerVars>>

\* single-connection reader: f.Read(a) with a nil f panics
ReadNil(c) ==
    /\ ~panicked
    /\ variant = "single"
    /\ conns[c].nil
    /\ conns[c].pc = "Read"
    /\ panicked' = TRUE
    /\ UNCHANGED <<conns, accpc, readerVars, webVars, timerVars>>

\* the delimiter test, split and accumulation on the buffer buf
ScanConn(r, buf, sep) ==
    IF Contains(buf, sep)
    THEN LET parts == Split(buf, sep)
         IN  [r EXCEPT !.str = parts,
                       !.line = @ \o Join(SubSeq(parts, 1, 1)),
                       !.pc = "SendLine"]
    ELSE [r EXCEPT !.str = <<>>, !.line = @ \o buf, !.pc = "Read"]

\* one pass of the reader loop of a connection, for the Read result res
ReadStep(r, res, v) ==
    LET buf == CopyInto(r.a, r.f, res.n)
        r1 == [r EXCEPT !.a = buf, !.f.pos = @ + res.n,
                        !.f.final = IF res.err # "nil" THEN res.err ELSE @,
                        !.reads = Append(@, res)]
    IN  IF v = "multi"
        THEN IF res.n = 0 \/ res.err # "nil"
             THEN [r1 EXCEPT !.pc = IF r.line # <<>> THEN "SendFlush" ELSE "Return"]
             ELSE ScanConn(r1, buf, <<CR, LF>>)
        ELSE LET r2 == IF res.err # "nil"
                       THEN [r1 EXCEPT !.out = Append(@, <<"log", res.err>>)]
                       ELSE r1
             IN  IF res.n = 0
                 THEN [r2 EXCEPT !.pc = "SendEOF"]
                 ELSE ScanConn(r2, buf, <<LF>>)

\* what the range loop prints for the value s
PrintValue(out, s, v) ==
    IF v = "single" /\ s = EOFText
    THEN out \o << <<"connection closed!">>, <<s>> >>
    ELSE Append(out, <<s>>)

\* the pending send of a connection's reader completes: the range loop
\* receives and prints the value, the reader goes on
SendStep(r, v) ==
    LET s == IF r.pc = "SendEOF" THEN EOFText ELSE r.line
        r1 == [r EXCEPT !.received = Append(@, s),
                        !.out = PrintValue(@, s, v)]
    IN  IF r.pc = "SendLine"
        THEN [r1 EXCEPT !.line = <<>> \o Join(Tail(r.str)), !.str = <<>>,
                        !.pc = "Read"]
        ELSE IF r.pc = "SendFlush"
        THEN [r1 EXCEPT !.pc = "Return"]
        ELSE [r1 EXCEPT !.closed = TRUE, !.pc = "Return"]

\* the reader goroutine of connection c reads
ConnRead(c) ==
    /\ ~panicked
    /\ ~conns[c].nil
    /\ conns[c].pc = "Read"
    /\ \E res \in SourceResults(conns[c].f) :
         conns' = Put(conns, c, ReadStep(conns[c], res, variant))
    /\ UNCHANGED <<accpc, panicked, readerVars, webVars, timerVars>>

\* the reader goroutine of connection c sends and its range loop receives
ConnSend(c) ==
    /\ ~panicked
    /\ conns[c].pc \in {"SendLine", "SendFlush", "SendEOF"}
    /\ conns[c].hpc = "range"
    /\ conns' = Put(conns, c, SendStep(conns[c], variant))
    /\ UNCHANGED <<accpc, panicked, readerVars, webVars, timerVars>>

\* the connection record after its range loop has ended
ExitStep(r, v) ==
    IF v = "multi"
    THEN [r EXCEPT !.hpc = "done",
                   !.out = Append(@, <<"connection closed!">>),
                   !.closes = @ + 1]
    ELSE [r EXCEPT !.hpc = "done"]

\* the range loop over the closed channel of connection c ends.  The
\* multi-connection handler prints "connection closed!" and returns, which
\* runs the deferred conn.Close(); the single-connection main goes back to
\* Accept.
HandlerExit(c) ==
    /\ ~panicked
    /\ conns[c].hpc = "range"
    /\ conns[c].closed
    /\ conns[c].pc = "Return"
    /\ conns' = Put(conns, c, ExitStep(conns[c], variant))
    /\ accpc' = IF variant = "multi" THEN accpc ELSE "Accept"
    /\ UNCHANGED <<panicked, readerVars, webVars, timerVars>>

InitAcceptor ==
    /\ InitWith({<<>>})
    /\ variant \in ListenerVariants
    /\ f.final = "EOF"

NextAcceptor ==
    \/ AcceptConn
    \/ AcceptError
    \/ \E c \in 1..Len(conns) : DeferNil(c)
    \/ \E c \in 1..Len(conns) : ReadNil(c)
    \/ \E c \in 1..Len(conns) : ConnRead(c)
    \/ \E c \in 1..Len(conns) : ConnSend(c)
    \/ \E c \in 1..Len(conns) : HandlerExit(c)

SpecAcceptor == InitAcceptor /\ [][NextAcceptor]_vars

\* ------------------------------------------------------------ properties
Last(s) == s[Len(s)]

IsPrefix(s, t) == Len(s) <= Len(t) /\ SubSeq(t, 1, Len(s)) = s

\* s can be obtained from t by deleting elements
RECURSIVE IsSubseq(_, _)
IsSubseq(s, t) ==
    IF s = <<>> THEN TRUE
    ELSE IF t = <<>> THEN FALSE
    ELSE IF Head(s) = Head(t) THEN IsSubseq(Tail(s), Tail(t))
    ELSE IsSubseq(s, Tail(t))

\* the records a byte sequence consists of: split at every delimiter,
\* delimiters stripped, a non-empty remainder as the final record
Lines(data, sep) ==
    LET p == Split(data, sep)
    IN  IF Last(p) = <<>> THEN SubSeq(p, 1, Len(p) - 1) ELSE p

\* the bytes after the last delimiter
Residual(data, sep) == Last(Split(data, sep))

\* the bytes of the input that are not part of a delimiter
Payload(data, sep) == Join(Split(data, sep))

\* the input is a non-empty sequence of delimiter-terminated lines
Terminated(data, sep) == data # <<>> /\ Residual(data, sep) = <<>>

\* the reader goroutine has returned; every send is a rendezvous, so main
\* has received all the goroutine ever sent
Finished == pc = "Return"

\* the values received that the reader assembled from the buffer, i.e.
\* without the "EOF" the single-connection variant sends before closing
Records ==
    IF variant = "single" /\ closed
    THEN SubSeq(received, 1, Len(received) - 1)
    ELSE received

\* number of bytes returned by the first k Reads
RECURSIVE BytesRead(_)
BytesRead(k) == IF k = 0 THEN 0 ELSE BytesRead(k - 1) + reads[k].n

\* some Read ended right after a CR and the next Read started with the LF
SplitAcrossReads ==
    \E i \in 1..(Len(reads) - 1) :
        /\ reads[i].n > 0
        /\ reads[i + 1].n > 0
        /\ f.data[BytesRead(i)] = CR
        /\ f.data[BytesRead(i) + 1] = LF

\* C1: when a source that ends with end-of-stream has been read to its end,
\* in whatever chunks, the values received from the channel are the input
\* split at every delimiter of the variant, delimiters stripped, with a
\* non-empty remainder as the final record.
C1_SplitAtDelimiter ==
    (Finished /\ CleanEOF) => received = Lines(f.data, Delim(variant))

\* C2: for an input made of delimiter-terminated lines, two calls of
\* getLinesChannel that differ only in the sizes of the reads deliver the
\* same sequence of records.
C2_ChunkingInvariance ==
    (/\ run = 2
     /\ Finished
     /\ CleanEOF
     /\ prev.clean
     /\ Terminated(f.data, Delim(variant)))
    => received = prev.recv

\* C3: no byte is duplicated or dropped: after any sequence of Reads the
\* bytes delivered in records are exactly the leading bytes of the input
\* without its delimiters (no byte that the source did not return, none
\* twice, none skipped), also when a Read returns fewer than 8 bytes.
C3_NoByteDuplicatedOrDropped ==
    CleanEOF => IsPrefix(Join(Records), Payload(f.data, Delim(variant)))

\* C4: in the CRLF variant, when a Read ends right after CR and the next
\* Read starts with LF, the line still ends at that CRLF: the records are
\* those of the input split at CRLF, none of them containing CR or LF.
C4_DelimiterSplitAcrossReads ==
    (/\ variant = "multi"
     /\ Finished
     /\ CleanEOF
     /\ SplitAcrossReads
     /\ \A i \in 1..Len(Split(f.data, <<CR, LF>>)) :
            \A j \in 1..Len(Split(f.data, <<CR, LF>>)[i]) :
                Split(f.data, <<CR, LF>>)[i][j] \notin {CR, LF})
    => received = Lines(f.data, <<CR, LF>>)

\* C5: when the source reaches end-of-stream with bytes after the last
\* delimiter (or without any delimiter), exactly those bytes are delivered
\* as the final record.
C5_TrailingPartialLine ==
    (/\ Finished
     /\ CleanEOF
     /\ Residual(f.data, Delim(variant)) # <<>>)
    => (/\ Records # <<>>
        /\ Last(Records) = Residual(f.data, Delim(variant)))

\* C6: when the input ends exactly at a delimiter, the last value delivered
\* is the last delimiter-terminated line and nothing follows it.
C6_NoRecordAfterFinalDelimiter ==
    (/\ Finished
     /\ CleanEOF
     /\ Terminated(f.data, Delim(variant)))
    => (/\ received # <<>>
        /\ Last(received) = Last(Lines(f.data, Delim(variant))))

\* C7: when the first Read already signals end-of-stream, the consumer
\* receives no value at all, in each of the three variants.
C7_EmptyInputNoValues ==
    (f.data = <<>> /\ f.final = "EOF") => received = <<>>

\* C8: the bytes delivered in records keep the order in which the source
\* returned them: the delivered bytes that came from the source form, in
\* their order of delivery, a subsequence of the input.
C8_OrderPreserved ==
    CleanEOF
    => IsSubseq(SelectSeq(Join(Records), LAMBDA b : b # NUL), f.data)

\* C9: once the source has signalled end-of-stream and the reader goroutine
\* has finished, the output channel is closed, so that the range loop of the
\* consumer ends.
C9_ChannelClosedAtEnd ==
    (Finished /\ CleanEOF) => closed

\* C10: a stream whose Read failed with an error other than end-of-stream
\* looks different to the consumer from a stream that ended normally: the
\* values received and the end of the range loop are not the same in both.
C10_ReadFailureSurfaced ==
    (/\ run = 2
     /\ Quiescent
     /\ prev.failed # Failed)
    => [recv |-> received, ended |-> (mainpc = "done")]
         # [recv |-> prev.recv, ended |-> prev.ended]

\* the bytes the i-th Read returned
Chunk(i) == SubSeq(f.data, BytesRead(i - 1) + 1, BytesRead(i))

\* number of delimiter occurrences in the bytes returned by the first k Reads,
\* counted read by read
RECURSIVE DelimsInReads(_)
DelimsInReads(k) ==
    IF k = 0 THEN 0
    ELSE DelimsInReads(k - 1) + Len(Split(Chunk(k), Delim(variant))) - 1

\* the bytes that occur in a byte sequence
BytesOf(s) == {s[i] : i \in 1..Len(s)}

\* C15: every value the consumer receives was assembled from the read buffer:
\* it consists of bytes of the source (and bytes of the zero-filled buffer);
\* no value is a sentinel that did not come from the source.
C15_NoSentinelValue ==
    \A i \in 1..Len(received) :
        BytesOf(received[i]) \subseteq (BytesOf(f.data) \cup {NUL})

\* C17: whenever the reader is about to issue the next Read, it has delivered
\* at least one record for every delimiter contained in the bytes of the
\* Reads so far: a Read that returns k delimiters yields k records.
C17_RecordPerDelimiter ==
    pc = "Read" => Len(received) >= DelimsInReads(Len(reads))

\* C18: each time the reader is about to issue a Read, the accumulator line
\* contains no occurrence of the delimiter of the variant.
C18_AccumulatorHasNoDelimiter ==
    pc = "Read" => ~Contains(line, Delim(variant))

\* C19: a source whose whole content is one delimiter, returned by a single
\* Read and followed by end-of-stream, yields exactly one record, the empty
\* string.
C19_OnlyDelimiterOneEmptyRecord ==
    (/\ f.data = Delim(variant)
     /\ Finished
     /\ reads = <<[n |-> Len(f.data), err |-> "nil"], [n |-> 0, err |-> "EOF"]>>)
    => Records = << <<>> >>

\* C20: once a Read has returned end-of-stream or another error, Read is not
\* called again: only the last Read so far may have returned an error or
\* zero bytes.
C20_NoReadAfterError ==
    \A i \in 1..(Len(reads) - 1) : reads[i].err = "nil" /\ reads[i].n > 0

\* ------------------------------------------------ listener properties
\* no Accept of this run has failed
NoAcceptFailure == \A c \in 1..Len(conns) : ~conns[c].nil

\* the reader of connection c is in its Read call
InRead(c) == ~conns[c].nil /\ conns[c].pc = "Read"

\* the records a connection can become by a step of its own when it is the
\* only connection: a Read, a completed send, the end of its handler
AloneSteps(r, v) ==
    (IF ~r.nil /\ r.pc = "Read"
     THEN {ReadStep(r, res, v) : res \in SourceResults(r.f)} ELSE {})
    \cup (IF r.pc \in {"SendLine", "SendFlush", "SendEOF"} /\ r.hpc = "range"
          THEN {SendStep(r, v)} ELSE {})
    \cup (IF r.hpc = "range" /\ r.closed /\ r.pc = "Return"
          THEN {ExitStep(r, v)} ELSE {})

\* C11: in the multi-connection listener, a connection whose reader has
\* ended (end-of-stream or Read error) gets closed: the channel is closed so
\* that the handler's range loop ends, or conn.Close() has already run.
C11_ConnectionClosedAtEnd ==
    \A c \in 1..Len(conns) :
        (variant = "multi" /\ ~conns[c].nil /\ conns[c].pc = "Return")
            => (conns[c].closed \/ conns[c].closes = 1)

\* a connection whose Read failed does not hold the accept loop
AcceptLoopFree ==
    \A c \in 1..Len(conns) :
        (NoAcceptFailure /\ ConnFailed(conns[c])
            /\ (variant = "multi" \/ conns[c].hpc = "done"))
            => (accpc = "Accept" \/ c < Len(conns))

\* C12: connection isolation.  Whatever the other connections do, Read
\* errors included, every step leaves each connection as it was or takes it
\* to what a step of its own does when it runs alone, so every reader
\* delivers the records it delivers alone; and a connection whose Read
\* failed does not hold the accept loop: main is at Accept or has accepted a
\* later connection.
C12_ConnectionIsolation ==
    [][ /\ \A c \in 1..Len(conns) :
             \/ conns'[c] = conns[c]
             \/ conns'[c] \in AloneSteps(conns[c], variant)
        /\ AcceptLoopFree' ]_vars

\* two connections were open together, the first one's Read failed after it
\* had returned data, the second delivered its records to the end, and a
\* third connection was accepted after the failure
C12_Witness ==
    /\ variant = "multi"
    /\ Len(conns) = 3
    /\ NoAcceptFailure
    /\ ConnFailed(conns[1]) /\ conns[1].reads[1].n > 0
    /\ ~conns[2].late /\ ~ConnFailed(conns[2])
    /\ conns[2].pc = "Return" /\ conns[2].received # <<>>
    /\ conns[3].late

\* the send of connection c's reader is pending
InSend(c) == conns[c].pc \in {"SendLine", "SendFlush", "SendEOF"}

\* C13 as stated, for both listeners: while a connection's reader is in
\* Read, main is at Accept, every other reader that is in Read can read and
\* every pending line can be received and printed.
C13_StalledClientBlocksNoOne ==
    (NoAcceptFailure /\ \E c \in 1..Len(conns) : InRead(c))
        => /\ accpc = "Accept"
           /\ \A d \in 1..Len(conns) : InRead(d) => ENABLED ConnRead(d)
           /\ \A d \in 1..Len(conns) : InSend(d) => ENABLED ConnSend(d)

\* C13 for the multi-connection listener only
C13_StalledClientMulti ==
    variant = "multi" => C13_StalledClientBlocksNoOne

\* the first connection has not returned from its first Read while a
\* connection accepted after it has been read to the end and printed
C13_Witness ==
    /\ variant = "multi"
    /\ Len(conns) >= 2
    /\ InRead(1) /\ conns[1].reads = <<>>
    /\ conns[2].pc = "Return" /\ ~conns[2].nil
    /\ Len(conns[2].out) >= 1

\* C14: a failed Accept does not bring the process down
C14_AcceptFailureNotFatal == ~panicked

\* -------------------------------------------- go-starter: GET /api/v1/users/{id}
\* UserHandler.GetUser, userService.GetUser and userRepository.GetByID.  An
\* error value is the sequence of the errors of its chain, outermost first.

\* most requests served in one run
MaxRequests == 2

StatusOK == 200
StatusBadRequest == 400
StatusNotFound == 404
StatusInternalServerError == 500

\* values of the {id} URL parameter
IdStrings ==
    {"", "42", "6ba7b810-9dad-11d1-80b4-00c04fd430cg",
     "550e8400-e29b-41d4-a716-446655440000",
     "550E8400-E29B-41D4-A716-446655440000",
     "urn:uuid:6ba7b810-9dad-11d1-80b4-00c04fd430c8"}

\* uuid.Parse: the canonical form is accepted in either case, so is the
\* urn:uuid: form; anything else is an error
Parse(s) ==
    CASE s \in {"550e8400-e29b-41d4-a716-446655440000",
                "550E8400-E29B-41D4-A716-446655440000"}
           -> [ok |-> TRUE, id |-> "550e8400-e29b-41d4-a716-446655440000"]
      [] s = "urn:uuid:6ba7b810-9dad-11d1-80b4-00c04fd430c8"
           -> [ok |-> TRUE, id |-> "6ba7b810-9dad-11d1-80b4-00c04fd430c8"]
      [] OTHER -> [ok |-> FALSE, id |-> ""]

\* fmt.Errorf("msg: %w", err): a new error that wraps err
Wrap(msg, err) == <<msg>> \o err

\* errors.Is(err, target)
ErrorsIs(err, target) == \E i \in 1..Len(err) : err[i] = target

ErrNotFound == <<"models.ErrNotFound">>

\* the error of a query that finds no row
ErrNoRows == <<"pgx.ErrNoRows", "sql.ErrNoRows">>

\* queries.GetUserByID(ctx, pgID): the row with that id, no row, or a failure
GetUserByID(id) ==
    { [row |-> id, err |-> NoErr],
      [row |-> "", err |-> ErrNoRows],
      [row |-> "", err |-> <<"context canceled">>],
      [row |-> "", err |-> <<"pgconn.ConnectError">>] }

\* what GetByID returns for the query result q
GetByID(q) ==
    IF q.err # NoErr
    THEN IF ErrorsIs(q.err, "sql.ErrNoRows")
         THEN [user |-> "", err |-> ErrNotFound]
         ELSE [user |-> "", err |-> Wrap("get user by id", q.err)]
    ELSE [user |-> q.row, err |-> NoErr]

\* a service that formats the repository's error with %v
ServiceWrapOpaque(err) == <<"get user">>

\* the error userService.GetUser returns for the repository's error
ServiceWrap(err) == Wrap("get user", err)

\* respondError and respondJSON: one WriteHeader and one encoded body
Respond(w, status, code, data) ==
    Append(w, [status |-> status, code |-> code, data |-> data])

\* the router hands a request for idStr to the handler
Request ==
    /\ web.pc \in {"idle", "done"}
    /\ web.n < MaxRequests
    /\ \E s \in IdStrings :
         web' = [WebIdle EXCEPT !.pc = "GetUser", !.idStr = s, !.n = web.n + 1]
    /\ UNCHANGED <<readerVars, acceptorVars, timerVars>>

\* GetUser up to the call of the service
HandlerParse ==
    /\ web.pc = "GetUser"
    /\ IF web.idStr = "" \/ ~Parse(web.idStr).ok
       THEN web' = [web EXCEPT
                      !.w = Respond(@, StatusBadRequest, "INVALID_ID", ""),
                      !.pc = "done"]
       ELSE web' = [web EXCEPT !.id = Parse(web.idStr).id, !.pc = "service"]
    /\ UNCHANGED <<readerVars, acceptorVars, timerVars>>

\* userService.GetUser is entered and calls the repository
ServiceGetUser ==
    /\ web.pc = "service"
    /\ web' = [web EXCEPT !.calls = @ + 1, !.pc = "repository"]
    /\ UNCHANGED <<readerVars, acceptorVars, timerVars>>

\* userRepository.GetByID runs the query
RepositoryQuery ==
    /\ web.pc = "repository"
    /\ \E q \in GetUserByID(web.id) :
         web' = [web EXCEPT !.q = q, !.pc = "queried"]
    /\ UNCHANGED <<readerVars, acceptorVars, timerVars>>

\* userRepository.GetByID maps the query result and returns
RepositoryReturn ==
    /\ web.pc = "queried"
    /\ web' = [web EXCEPT !.user = GetByID(web.q).user,
                          !.err = GetByID(web.q).err,
                          !.pc = "repository returned"]
    /\ UNCHANGED <<readerVars, acceptorVars, timerVars>>

\* userService.GetUser returns
ServiceReturn ==
    /\ web.pc = "repository returned"
    /\ IF web.err # NoErr
       THEN web' = [web EXCEPT !.user = "", !.err = ServiceWrap(web.err),
                               !.pc = "service returned"]
       ELSE web' = [web EXCEPT !.pc = "service returned"]
    /\ UNCHANGED <<readerVars, acceptorVars, timerVars>>

\* GetUser after the call of the service
HandlerRespond ==
    /\ web.pc = "service returned"
    /\ web' = [web EXCEPT
         !.w = IF web.err # NoErr
               THEN IF ErrorsIs(web.err, "models.ErrNotFound")
                    THEN Respond(@, StatusNotFound, "NOT_FOUND", "")
                    ELSE Respond(@, StatusInternalServerError, "INTERNAL_ERROR", "")
               ELSE Respond(@, StatusOK, "", web.user),
         !.pc = "done"]
    /\ UNCHANGED <<readerVars, acceptorVars, timerVars>>

InitWeb ==
    /\ InitWith({<<>>})
    /\ variant = "file"
    /\ f.final = "EOF"

NextWeb ==
    \/ Request
    \/ HandlerParse
    \/ ServiceGetUser
    \/ RepositoryQuery
    \/ RepositoryReturn
    \/ ServiceReturn
    \/ HandlerRespond

SpecWeb == InitWeb /\ [][NextWeb]_vars

C21_AcceptLoopEndsWhenClosed ==
    (\E c \in 1..Len(conns) : conns[c].nil) => accpc \notin {"Accept", "Range"}

\* C22: readers share no state.  A step that changes one connection leaves
\* the read buffer, the accumulator and the channel (closed or not, values
\* received from it) of every other connection as they were.
C22_ReadersShareNoState ==
    [][ \A c \in 1..Len(conns) : \A d \in 1..Len(conns) :
           (c # d /\ conns'[c] # conns[c])
              => /\ conns'[d].a = conns[d].a
                 /\ conns'[d].line = conns[d].line
                 /\ conns'[d].closed = conns[d].closed
                 /\ conns'[d].received = conns[d].received ]_vars

\* two readers of the multi-connection listener are running at the same
\* time, each has read from its connection, and their buffers and
\* accumulators differ
C22_Witness ==
    /\ variant = "multi"
    /\ Len(conns) >= 2
    /\ ~conns[1].nil /\ ~conns[2].nil
    /\ conns[1].pc = "Read" /\ conns[2].pc = "Read"
    /\ conns[1].reads # <<>> /\ conns[2].reads # <<>>
    /\ conns[1].a # conns[2].a
    /\ conns[1].line # conns[2].line

\* C23: in the file and the multi-connection variant a zero-byte Read ends
\* the sequence normally: it is the last Read, and once the reader has
\* returned the output has ended, that is, the channel is closed (the
\* channel carries strings only, so no error can reach the consumer).
C23_ZeroByteReadEndsOutput ==
    (variant \in {"file", "multi"} /\ \E i \in 1..Len(reads) : reads[i].n = 0)
        => /\ \A i \in 1..(Len(reads) - 1) : reads[i].n > 0
           /\ pc = "Return" => closed

\* ------------------------------------------------------ timer experiment
\* main of the timer experiment: a for loop around a select with a receive
\* from t.C and a default branch.  t.C is never closed, so the receive
\* always yields ok = true.

\* most passes through the default branch in one run
MaxPolls == 60

\* the runtime timer expires after 500 ms: a value is ready on t.C
TimerExpires ==
    /\ ~timer.fired
    /\ timer' = [timer EXCEPT !.fired = TRUE, !.c = 1]
    /\ UNCHANGED <<readerVars, acceptorVars, webVars>>

\* select with nothing ready on t.C: the default branch runs and the loop
\* goes round
SelectDefault ==
    /\ timer.pc = "select"
    /\ timer.c = 0
    /\ Len(timer.out) < MaxPolls
    /\ timer' = [timer EXCEPT !.out = Append(@, "waiting...")]
    /\ UNCHANGED <<readerVars, acceptorVars, webVars>>

\* select with a value ready on t.C: it is received, "time out!" is printed
\* and main returns
SelectTimer ==
    /\ timer.pc = "select"
    /\ timer.c = 1
    /\ timer' = [timer EXCEPT !.c = 0, !.out = Append(@, "time out!"),
                              !.pc = "done"]
    /\ UNCHANGED <<readerVars, acceptorVars, webVars>>

InitTimer ==
    /\ InitWith({<<>>})
    /\ variant = "file"
    /\ f.final = "EOF"

NextTimer ==
    \/ TimerExpires
    \/ SelectDefault
    \/ SelectTimer

SpecTimer == InitTimer /\ [][NextTimer]_vars

\* C24: no busy polling.  Until the timer fires main takes no step: the
\* default branch never runs, so "waiting..." is never printed; what is
\* printed is "time out!", once, when main returns.
C24_NoBusyPolling ==
    /\ \A i \in 1..Len(timer.out) : timer.out[i] # "waiting..."
    /\ timer.pc = "done" => timer.out = <<"time out!">>

\* number of elements of the sequence s that equal x
Count(s, x) == Cardinality({i \in 1..Len(s) : s[i] = x})

\* C25: in the single-connection listener main cannot tell the end of the
\* stream from data: for every received value that equals "EOF", whether the
\* reader sent it as a line of the client or as its end marker, main prints
\* two lines, "connection closed!" and the value; for any other value it
\* prints the value only.
C25_SentinelIndistinguishable ==
    [][ (variant = "single" /\ received' # received)
           => Len(printed') - Len(printed) =
                 IF Last(received') = EOFText THEN 2 ELSE 1 ]_vars

\* the client's first line was "EOF" and was received while the source had
\* more bytes, another line followed, and "EOF" was received a second time
\* at the end of the stream
C25_Witness ==
    /\ variant = "single"
    /\ closed
    /\ reads[1].n < Len(f.data)
    /\ received[1] = EOFText
    /\ Len(received) >= 3
    /\ Count(received, EOFText) = 2

\* the reader has handed a value to the channel and waits in the send
Sending == pc \in {"SendLine", "SendFlush", "SendEOF"}

\* C26: back-pressure.  While the reader waits in a send, the only thing
\* that happens is that the consumer receives that one value: no Read is
\* issued and nothing else is handed over; a Read is issued only by a reader
\* that is not in a send.
C26_BackPressure ==
    [][ /\ Sending => /\ reads' = reads
                      /\ f' = f
                      /\ Len(received') = Len(received) + 1
        /\ reads' # reads => pc = "Read" ]_vars

\* the multi-connection reader waits in the send of a record while its
\* source has bytes it has not read yet
C26_Witness ==
    /\ variant = "multi"
    /\ pc = "SendLine"
    /\ reads # <<>>
    /\ f.pos < Len(f.data)

\* C27: the single-connection listener serves connections one after
\* another.  Every connection but the last accepted one has been served to
\* the end (its channel is closed and its range loop has ended), so nothing
\* more is printed for it, and main is at Accept only when that holds for
\* the last one too.
C27_SingleServesInTurn ==
    variant = "single" =>
        \A c \in 1..Len(conns) :
            (c < Len(conns) \/ accpc = "Accept")
                => (conns[c].closed /\ conns[c].hpc = "done")

\* a second connection is being served and has delivered a value after the
\* first one was served to the end
C27_Witness ==
    /\ variant = "single"
    /\ Len(conns) >= 2
    /\ conns[1].hpc = "done" /\ conns[1].received # <<>>
    /\ conns[2].hpc = "range" /\ conns[2].received # <<>>

\* C28: channel discipline.  When the channel is closed the reader goroutine
\* has returned, and a reader that has returned does nothing more: it
\* neither sends a value nor closes the channel again.
C28_ChannelDiscipline ==
    [][ /\ closed' => pc' = "Return"
        /\ pc = "Return" => /\ pc' = "Return"
                            /\ closed' = closed
                            /\ received' = received ]_vars

\* the file reader has sent records, closed its channel and returned
C28_Witness ==
    /\ variant = "file"
    /\ closed
    /\ pc = "Return"
    /\ received # <<>>

\* C29: data returned together with an error is not lost.  The bytes of a
\* Read that returned n > 0 and a non-nil error (without the delimiters among
\* them) are in the accumulator, in the pieces still to be accumulated, or
\* in the values already delivered.
C29_DataWithErrorKept ==
    \A i \in 1..Len(reads) :
        (reads[i].n > 0 /\ reads[i].err # "nil")
            => IsSubseq(Payload(Chunk(i), Delim(variant)),
                        Join(received) \o line \o Join(str))

\* number of bytes the Read results rs returned
RECURSIVE SumN(_)
SumN(rs) == IF rs = <<>> THEN 0 ELSE Head(rs).n + SumN(Tail(rs))

====
